---- MODULE Spec2Model ----
(***************************************************************************)
(* Download job lifecycle and concurrency-bounded queue of csvdl_core.py:  *)
(* download_job (one job, one curl process, polled every 250 ms) and       *)
(* download_queue (many jobs, at most max_concurrent curl processes,       *)
(* polled every second).  The curl process and the file it writes are the  *)
(* environment: a started process may append bytes to the job's out_path   *)
(* and exits at some point with some exit code.                            *)
(***************************************************************************)
EXTENDS Integers, Sequences, FiniteSets, TLC

\* ---------------------------------------------------------------- bounds
MaxJobs == 2          \* longest job list handed to download_queue
MaxConcurrent == 2    \* largest max_concurrent tried
MaxSize == 2          \* largest on-disk size (in blocks) a file grows to
MaxExit == 2          \* curl exit codes are 0..MaxExit
MaxUrlLen == 3        \* longest URL (in atoms) handed to infer_filename
MaxUrls == 2
MaxTextLen == 5
MaxRunners == 2          \* longest URL list handed to prepare_jobs

ExitCodes == 0..MaxExit

\* Python's None for Popen.returncode / Popen.poll()
NoCode == -1
\* Popen.returncode after Popen.terminate() (killed by SIGTERM)
TermCode == -15
\* Python's None for Job.expected_bytes
NoBytes == -1

\* ------------------------------------------------------------------ state
VARIABLES
    status,             \* Job.status, per job (index in the input list)
    message,            \* Job.message, per job, as a sequence of tokens
    has_out,            \* Job.out_path is not None, per job
    fsize,              \* st_size of Job.out_path on disk, per job
    proc,               \* Job._proc: "none" | "running" | "exited"
    returncode,         \* Popen.returncode of Job._proc (NoCode while unset)
    auth_cookies,       \* the auth_cookies argument
    max_concurrent,     \* download_queue's max_concurrent argument
    qpc,                \* download_queue: "off" | "loop" | "done" | "raised"
    i,                  \* download_queue: position of the for loop (1-based)
    running_downloads,  \* download_queue: list of in-flight jobs
    completed_jobs,     \* download_queue: list of finished jobs (the result)
    jpc,                \* download_job, per job: "idle" | "polling" |
                        \* "returned" | "interrupted" | "raised"
    exc,                \* exception that left the last raising call
    expected_bytes,     \* Job.expected_bytes, per job (NoBytes for None)
    progress_cb,        \* a progress callback was passed (TRUE) or None
    cb_last,            \* per job: arguments of the last progress_cb call,
                        \* <<fraction numerator, denominator, bytes_done>>,
                        \* <<>> when it was never called
    url,                \* infer_filename: the url argument (a string, as a
                        \* sequence of atoms)
    headers,            \* infer_filename: the headers argument (a sequence
                        \* of lines, each a string)
    desired_ext,        \* the desired_ext argument of infer_filename and of
                        \* prepare_jobs (a string)
    name,               \* infer_filename: the returned name (a string)
    ipc,                \* infer_filename: "off" | "call" | "returned"
    urls,               \* prepare_jobs: the urls argument (list of strings)
    target_dir,         \* names of the files that exist in target_dir
    jobs,               \* prepare_jobs: the list of jobs built so far
    probes,             \* every _curl_headers call made by prepare_jobs, as
                        \* <<url, auth_cookies passed, outcome>>
    ppc,                \* prepare_jobs: "off" | "loop" | "returned" | "raised"
    args_jobs,          \* krdl_dl main: the value of -j/--jobs
    summary,            \* krdl_dl main: the counts of the printed summary,
                        \* <<successful, failed, skipped>>; <<>> before
    mpc,                \* krdl_dl main: "off" | "prepare" | "queue" | "done"
    text,               \* extract_urls_from_text: the content of the file
    out_urls,           \* extract_urls_from_text: the list out it returns
    xpc,                \* extract_urls_from_text: "off" | "call" | "returned"
    app_running,        \* csvdl_tui: self.running
    max_workers,        \* csvdl_tui: self.max_workers
    runners,            \* csvdl_tui: the _runner tasks created so far
    tasks,              \* csvdl_tui: the run_one tasks not yet finished
    tpc,                \* csvdl_tui: "off" | "on" | "exited"
    partial_urls        \* krdl_dl: the URLs the run before left PAUSED with a partial file

vars == <<status, message, has_out, fsize, proc, returncode, auth_cookies,
          max_concurrent, qpc, i, running_downloads, completed_jobs, jpc, exc,
          expected_bytes, progress_cb, cb_last, url, headers, desired_ext,
          name, ipc, urls, target_dir, jobs, probes, ppc, args_jobs, summary,
          mpc,
          text, out_urls, xpc,
          app_running, max_workers, runners, tasks, tpc,
          partial_urls>>

jobVars == <<status, message, has_out, fsize, proc, returncode>>
cbVars == <<expected_bytes, progress_cb, cb_last>>
queueVars == <<qpc, i, running_downloads, completed_jobs>>
nameVars == <<url, headers, desired_ext, name, ipc>>
prepVars == <<urls, target_dir, jobs, probes, ppc>>
mainVars == <<args_jobs, summary, mpc>>
extractVars == <<text, out_urls, xpc>>
tuiVars == <<app_running, max_workers, runners, tasks, tpc>>
resumeVars == <<partial_urls>>

Jobs == DOMAIN status

\* Job.status values (csvdl_core.py:37)
Statuses == {"QUEUED", "RUNNING", "DONE", "SKIP", "FAIL", "PAUSED"}
Terminal == {"DONE", "FAIL", "PAUSED", "SKIP"}

\* auth_cookies values: None, or a cookie string
AuthValues == {"None", "sid=1"}

\* ---------------------------------------------------------------- helpers
\* Python truthiness of auth_cookies: None and "" are falsy
Truthy(a) == a \notin {"None", ""}

\* f"curl exit {returncode}" and f"curl exit {returncode} (partial saved)"
MsgExit(c) == <<"curl exit", ToString(c)>>
MsgPartial(c) == <<"curl exit", ToString(c), "(partial saved)">>
MsgTerminated == <<"terminated">>
MsgEmpty == <<>>

\* pat in msg (contiguous sub-sequence of tokens)
Contains(msg, pat) ==
    \E k \in 0..(Len(msg) - Len(pat)) :
        \A n \in 1..Len(pat) : msg[k + n] = pat[n]

\* _current_size(job): st_size of out_path, 0 when out_path is None
CurrentSize(j) == IF has_out[j] THEN fsize[j] ELSE 0

\* download_job, lines 367-377: outcome classification
\* (faulty variant: "size >= 0" for "size > 0", a failure is never FAIL)
ClassifyStatusAnySize(code, size) ==
    IF code = 0 THEN "DONE"
    ELSE IF size >= 0 THEN "PAUSED" ELSE "FAIL"
\* (faulty variant: a failed job is queued again)
ClassifyStatusRequeue(code, size) ==
    IF code = 0 THEN "DONE" ELSE "QUEUED"
ClassifyStatus(code, size) ==
    IF code = 0 THEN "DONE"
    ELSE IF size > 0 THEN "PAUSED" ELSE "FAIL"

\* (faulty variant: the message is written on success too)
ClassifyMessageUncleared(code, size) ==
    IF size > 0 THEN MsgPartial(code) ELSE MsgExit(code)
ClassifyMessage(code, size) ==
    IF code = 0 THEN MsgEmpty
    ELSE IF size > 0 THEN MsgPartial(code) ELSE MsgExit(code)

\* download_queue, lines 414-424 and 454-464: the classification written
\* out in its two polling loops
\* (faulty variant: "size >= 0" for "size > 0" in the loops of the queue)
QueueClassifyStatusAnySize(code, size) ==
    IF code = 0 THEN "DONE"
    ELSE IF size >= 0 THEN "PAUSED" ELSE "FAIL"
QueueClassifyStatus(code, size) ==
    IF code = 0 THEN "DONE"
    ELSE IF size > 0 THEN "PAUSED" ELSE "FAIL"

QueueClassifyMessage(code, size) ==
    IF code = 0 THEN MsgEmpty
    ELSE IF size > 0 THEN MsgPartial(code) ELSE MsgExit(code)

\* the classification of download_job and of download_queue assigns status
\* and message of the jobs js it handles and nothing else: any other field
\* of the jobs afterwards (faulty variant: out_path of these jobs is dropped)
OutPathDropped(field, js) ==
    [j \in DOMAIN field |-> IF j \in js THEN FALSE ELSE field[j]]
Untouched(field, js) == field

\* _start_curl: the exception it raises, "none" when it starts the process
\* (faulty variant: without the assert on out_path)
StartCurlUnasserted(j, auth) == IF ~Truthy(auth) THEN "ValueError" ELSE "none"
StartCurlRaises(j, auth) ==
    IF ~has_out[j] THEN "AssertionError"
    ELSE IF ~Truthy(auth) THEN "ValueError"
    ELSE "none"

\* elements of a sequence
Range(s) == {s[n] : n \in 1..Len(s)}

\* the sub-sequence of s whose elements satisfy membership in keep
SelectIn(s, keep) == SelectSeq(s, LAMBDA x : x \in keep)

\* ------------------------------------------------------------------- Init
\* A job as the callers hand it over: prepared (QUEUED or SKIP), built bare
\* with the dataclass defaults (QUEUED, no out_path), or left by an earlier
\* run (DONE, FAIL, PAUSED).
KindQueued == [status |-> "QUEUED", message |-> MsgEmpty,      has_out |-> TRUE,  fsize |-> 0]
KindBare ==   [status |-> "QUEUED", message |-> MsgEmpty,      has_out |-> FALSE, fsize |-> 0]
KindSkip ==   [status |-> "SKIP",   message |-> MsgEmpty,      has_out |-> TRUE,  fsize |-> 1]
KindDone ==   [status |-> "DONE",   message |-> MsgEmpty,      has_out |-> TRUE,  fsize |-> 1]
KindFail ==   [status |-> "FAIL",   message |-> MsgExit(1),    has_out |-> TRUE,  fsize |-> 0]
KindPaused == [status |-> "PAUSED", message |-> MsgPartial(1), has_out |-> TRUE,  fsize |-> 1]

\* job lists given to download_queue: what prepare_jobs emits, and jobs a
\* previous run left DONE or PAUSED
QueueKinds == {KindQueued, KindSkip, KindDone, KindPaused}
\* jobs given to download_job
ExecKinds == {KindQueued, KindBare, KindSkip, KindDone, KindFail, KindPaused}

\* the job lists of a length in lens, of jobs of the given kinds, each with
\* an expected_bytes of sizes
InitJobs(lens, kinds, sizes) ==
    \E n \in lens : \E js \in [1..n -> kinds] :
        /\ status = [j \in 1..n |-> js[j].status]
        /\ message = [j \in 1..n |-> js[j].message]
        /\ has_out = [j \in 1..n |-> js[j].has_out]
        /\ fsize = [j \in 1..n |-> js[j].fsize]
        /\ proc = [j \in 1..n |-> "none"]
        /\ returncode = [j \in 1..n |-> NoCode]
        /\ jpc = [j \in 1..n |-> "idle"]
        /\ expected_bytes \in [1..n -> sizes]
        /\ cb_last = [j \in 1..n |-> <<>>]

\* neither infer_filename nor prepare_jobs is under way
NoNaming ==
    /\ url = <<>>
    /\ headers = <<>>
    /\ desired_ext = <<"mkv">>
    /\ name = <<>>
    /\ ipc = "off"

\* extract_urls_from_text is not under way
NoExtract ==
    /\ text = <<>>
    /\ out_urls = <<>>
    /\ xpc = "off"

\* no run of krdl_dl came before
NoResume == partial_urls = {}

\* the TUI is not running
NoTui ==
    /\ app_running = FALSE
    /\ max_workers = 1
    /\ runners = <<>>
    /\ tasks = {}
    /\ tpc = "off"

\* krdl_dl main is not running (2 is the default of --jobs)
NoMain ==
    /\ args_jobs = 2
    /\ summary = <<>>
    /\ mpc = "off"

NoPrepare ==
    /\ urls = <<>>
    /\ target_dir = {}
    /\ jobs = <<>>
    /\ probes = <<>>
    /\ ppc = "off"

\* download_queue(jobs, auth_cookies, max_concurrent, progress_cb) has just
\* been called
Init ==
    /\ NoMain
    /\ NoResume
    /\ NoTui
    /\ NoExtract
    /\ NoNaming
    /\ NoPrepare
    /\ InitJobs(0..MaxJobs, QueueKinds, {NoBytes})
    /\ auth_cookies \in AuthValues
    /\ max_concurrent \in 1..MaxConcurrent
    /\ progress_cb = TRUE
    /\ qpc = "loop"
    /\ i = 1
    /\ running_downloads = <<>>
    /\ completed_jobs = <<>>
    /\ exc = "none"

\* ------------------------------------------------------- the curl process
\* krdl_dl main, line 55: the jobs handed to download_queue
QueuedJobs == SelectSeq(jobs, LAMBDA r : r.status = "QUEUED")

\* the jobs whose out_path is the out_path of job j: the job itself, and
\* under krdl_dl main every job prepare_jobs gave the same name
SamePath(j) ==
    IF mpc = "off" THEN {j}
    ELSE {k \in Jobs : QueuedJobs[k].name = QueuedJobs[j].name}

\* curl appends a block to out_path
ProcWrite(j) ==
    /\ proc[j] = "running"
    /\ fsize[j] < MaxSize
    /\ fsize' = [k \in Jobs |-> IF k \in SamePath(j) THEN fsize[j] + 1 ELSE fsize[k]]
    /\ UNCHANGED <<status, message, has_out, proc, returncode, auth_cookies, resumeVars, tuiVars, extractVars, mainVars, nameVars, prepVars,
                   max_concurrent, qpc, i, running_downloads, completed_jobs,
                   jpc, exc, cbVars>>

\* curl exits with code c
ProcExit(j, c) ==
    /\ proc[j] = "running"
    /\ proc' = [proc EXCEPT ![j] = "exited"]
    /\ returncode' = [returncode EXCEPT ![j] = c]
    /\ UNCHANGED <<status, message, has_out, fsize, auth_cookies, resumeVars, tuiVars, extractVars, mainVars, nameVars, prepVars,
                   max_concurrent, qpc, i, running_downloads, completed_jobs,
                   jpc, exc, cbVars>>

\* --------------------------------------------------------- download_queue
\* for i, job in enumerate(jobs): the job at position pos of the input list
\* (faulty variant: the list is walked from its end)
JobAtReversed(pos) == Cardinality(Jobs) + 1 - pos
JobAt(pos) == pos

\* while len(running_downloads) >= max_concurrent
\* (faulty variant: ">" for ">=")
AtCapacityOffByOne(running, maxc) == Len(running) > maxc
AtCapacity(running, maxc) == Len(running) >= maxc

\* while running_downloads (the wait after the for loop)
\* (faulty variant: the wait ends with one download left)
StillRunningButOne(running) == Len(running) > 1
StillRunning(running) == running # <<>>

\* the downloads of one polling pass whose process.poll() is not None
\* (faulty variant: poll() is not consulted)
FinishedUnpolled(running) == Range(running)
Finished(running) == {j \in Range(running) : proc[j] = "exited"}

\* completed_jobs.append(result), for each finished download in turn
\* (faulty variant: the results are put in front)
CollectInFront(completed, new) == new \o completed
Collect(completed, new) == completed \o new

\* for loop, SKIP branch: the job goes straight to the result
QueueSkip ==
    /\ qpc = "loop"
    /\ i \in Jobs
    /\ status[JobAt(i)] = "SKIP"
    /\ completed_jobs' = Collect(completed_jobs, <<JobAt(i)>>)
    /\ i' = i + 1
    /\ UNCHANGED <<jobVars, auth_cookies, resumeVars, tuiVars, extractVars, mainVars, nameVars, prepVars, max_concurrent, qpc,
                   running_downloads, jpc, exc, cbVars>>

\* one pass over running_downloads: classify and collect the finished
\* downloads in list order, then remove them from the list
PollPass ==
    LET fin == Finished(running_downloads)
    IN  /\ status' = [j \in Jobs |->
                        IF j \in fin
                        THEN QueueClassifyStatus(returncode[j], CurrentSize(j))
                        ELSE status[j]]
        /\ message' = [j \in Jobs |->
                        IF j \in fin
                        THEN QueueClassifyMessage(returncode[j], CurrentSize(j))
                        ELSE message[j]]
        /\ completed_jobs' =
              Collect(completed_jobs, SelectIn(running_downloads, fin))
        /\ running_downloads' = SelectIn(running_downloads, Jobs \ fin)
        /\ has_out' = Untouched(has_out, fin)

\* for loop, waiting for a free slot
QueueWait ==
    /\ qpc = "loop"
    /\ i \in Jobs
    /\ status[JobAt(i)] # "SKIP"
    /\ AtCapacity(running_downloads, max_concurrent)
    /\ PollPass
    /\ UNCHANGED <<fsize, proc, returncode, auth_cookies, resumeVars, tuiVars, extractVars, mainVars, nameVars, prepVars,
                   max_concurrent, qpc, i, jpc, exc, cbVars>>

\* for loop, a slot is free: _start_curl(job, auth_cookies)
QueueStart ==
    /\ qpc = "loop"
    /\ i \in Jobs
    /\ status[JobAt(i)] # "SKIP"
    /\ ~AtCapacity(running_downloads, max_concurrent)
    /\ StartCurlRaises(JobAt(i), auth_cookies) = "none"
    /\ proc' = [proc EXCEPT ![JobAt(i)] = "running"]
    /\ returncode' = [returncode EXCEPT ![JobAt(i)] = NoCode]
    /\ running_downloads' = Append(running_downloads, JobAt(i))
    /\ i' = i + 1
    /\ UNCHANGED <<status, message, has_out, fsize, auth_cookies, resumeVars, tuiVars, extractVars, mainVars, nameVars, prepVars,
                   max_concurrent, qpc, completed_jobs, jpc, exc, cbVars>>

\* for loop, a slot is free but _start_curl raises: download_queue is left
QueueRaise ==
    /\ qpc = "loop"
    /\ i \in Jobs
    /\ status[JobAt(i)] # "SKIP"
    /\ ~AtCapacity(running_downloads, max_concurrent)
    /\ StartCurlRaises(JobAt(i), auth_cookies) # "none"
    /\ exc' = StartCurlRaises(JobAt(i), auth_cookies)
    /\ qpc' = "raised"
    /\ UNCHANGED <<jobVars, auth_cookies, resumeVars, tuiVars, extractVars, mainVars, nameVars, prepVars, max_concurrent, i,
                   running_downloads, completed_jobs, jpc, cbVars>>

\* after the for loop: while running_downloads
QueueDrain ==
    /\ qpc = "loop"
    /\ i \notin Jobs
    /\ StillRunning(running_downloads)
    /\ PollPass
    /\ UNCHANGED <<fsize, proc, returncode, auth_cookies, resumeVars, tuiVars, extractVars, mainVars, nameVars, prepVars,
                   max_concurrent, qpc, i, jpc, exc, cbVars>>

\* return completed_jobs
QueueReturn ==
    /\ qpc = "loop"
    /\ i \notin Jobs
    /\ ~StillRunning(running_downloads)
    /\ qpc' = "done"
    /\ UNCHANGED <<jobVars, auth_cookies, resumeVars, tuiVars, extractVars, mainVars, nameVars, prepVars, max_concurrent, i,
                   running_downloads, completed_jobs, jpc, exc, cbVars>>

\* KeyboardInterrupt anywhere in download_queue (it has no handler): the
\* call is left, the started processes and the jobs stay as they are
QueueInterrupt ==
    /\ qpc = "loop"
    /\ qpc' = "raised"
    /\ exc' = "KeyboardInterrupt"
    /\ UNCHANGED <<jobVars, auth_cookies, resumeVars, tuiVars, extractVars, mainVars, nameVars, prepVars, max_concurrent, i,
                   running_downloads, completed_jobs, jpc, cbVars>>

\* the steps of download_queue itself
QueueStep ==
    \/ QueueSkip
    \/ QueueWait
    \/ QueueStart
    \/ QueueRaise
    \/ QueueDrain
    \/ QueueReturn

\* the steps of the curl processes
ProcStep ==
    \/ \E j \in Jobs : ProcWrite(j)
    \/ \E j \in Jobs : \E c \in ExitCodes : ProcExit(j, c)

Next ==
    \/ QueueStep
    \/ QueueInterrupt
    \/ ProcStep

Spec == Init /\ [][Next]_vars

\* download_queue left to run, never interrupted: its loops keep turning and
\* every started curl process exits at some point
LiveNext ==
    \/ QueueStep
    \/ ProcStep

LiveSpec ==
    /\ Init
    /\ [][LiveNext]_vars
    /\ WF_vars(QueueStep)
    /\ WF_vars(\E j \in Jobs : \E c \in ExitCodes : ProcExit(j, c))

\* ----------------------------------------------------------- download_job
\* frac = max(0.0, min(1.0, size / expected_bytes)) when expected_bytes is
\* truthy, else 0.0; as <<numerator, denominator>>
\* (faulty variant: the clamp to 1.0 is missing)
FracUnclamped(size, exp) ==
    IF exp = NoBytes \/ exp = 0 THEN <<0, 1>>
    ELSE IF size = 0 THEN <<0, 1>>
    ELSE <<size, exp>>
Frac(size, exp) ==
    IF exp = NoBytes \/ exp = 0 THEN <<0, 1>>
    ELSE IF size >= exp THEN <<1, 1>>
    ELSE IF size = 0 THEN <<0, 1>>
    ELSE <<size, exp>>

\* if progress_cb: progress_cb(job, frac, size)
CallProgress(j) ==
    IF progress_cb
    THEN [cb_last EXCEPT ![j] =
            <<Frac(CurrentSize(j), expected_bytes[j])[1],
              Frac(CurrentSize(j), expected_bytes[j])[2],
              CurrentSize(j)>>]
    ELSE cb_last

\* the statuses download_job returns at once, without executing the job
\* (faulty variant: the SKIP check is missing)
PassThroughNothing == {}
PassThrough == {"SKIP"}

\* download_job entry: SKIP check, status = RUNNING, _start_curl
JobCall(j) ==
    /\ jpc[j] # "polling"
    /\ IF status[j] \in PassThrough
       THEN /\ jpc' = [jpc EXCEPT ![j] = "returned"]
            /\ UNCHANGED <<status, proc, returncode, exc>>
       ELSE /\ status' = [status EXCEPT ![j] = "RUNNING"]
            /\ IF StartCurlRaises(j, auth_cookies) = "none"
               THEN /\ proc' = [proc EXCEPT ![j] = "running"]
                    /\ returncode' = [returncode EXCEPT ![j] = NoCode]
                    /\ jpc' = [jpc EXCEPT ![j] = "polling"]
                    /\ UNCHANGED exc
               ELSE /\ jpc' = [jpc EXCEPT ![j] = "raised"]
                    /\ exc' = StartCurlRaises(j, auth_cookies)
                    /\ UNCHANGED <<proc, returncode>>
    /\ UNCHANGED <<message, has_out, fsize, auth_cookies, resumeVars, tuiVars, extractVars, mainVars, nameVars, prepVars, max_concurrent,
                   queueVars, cbVars>>

\* one turn of the polling loop while curl is still running
JobPoll(j) ==
    /\ jpc[j] = "polling"
    /\ proc[j] = "running"
    /\ cb_last' = CallProgress(j)
    /\ UNCHANGED <<jobVars, auth_cookies, resumeVars, tuiVars, extractVars, mainVars, nameVars, prepVars, max_concurrent, queueVars, jpc, exc,
                   expected_bytes, progress_cb>>

\* last turn of the polling loop (poll() is not None), then classification
JobFinish(j) ==
    /\ jpc[j] = "polling"
    /\ proc[j] = "exited"
    /\ cb_last' = CallProgress(j)
    /\ status' = [status EXCEPT
                    ![j] = ClassifyStatus(returncode[j], CurrentSize(j))]
    /\ message' = [message EXCEPT
                    ![j] = ClassifyMessage(returncode[j], CurrentSize(j))]
    /\ jpc' = [jpc EXCEPT ![j] = "returned"]
    /\ has_out' = Untouched(has_out, {j})
    /\ UNCHANGED <<fsize, proc, returncode, auth_cookies, resumeVars, tuiVars, extractVars, mainVars, nameVars, prepVars,
                   max_concurrent, queueVars, exc, expected_bytes,
                   progress_cb>>

\* KeyboardInterrupt inside the polling loop: terminate, PAUSED, return
JobInterrupt(j) ==
    /\ jpc[j] = "polling"
    /\ proc' = [proc EXCEPT ![j] = "exited"]
    /\ returncode' = [returncode EXCEPT
                        ![j] = IF proc[j] = "running" THEN TermCode ELSE @]
    /\ status' = [status EXCEPT ![j] = "PAUSED"]
    /\ message' = [message EXCEPT ![j] = MsgTerminated]
    /\ jpc' = [jpc EXCEPT ![j] = "interrupted"]
    /\ UNCHANGED <<has_out, fsize, auth_cookies, resumeVars, tuiVars, extractVars, mainVars, nameVars, prepVars, max_concurrent, queueVars,
                   exc, cbVars>>

\* KeyboardInterrupt while _start_curl runs (line 344, before the try): it
\* leaves download_job with status RUNNING, the process started or not
JobInterruptStarting(j) ==
    /\ jpc[j] # "polling"
    /\ status[j] \notin PassThrough
    /\ status' = [status EXCEPT ![j] = "RUNNING"]
    /\ \/ UNCHANGED <<proc, returncode>>
       \/ /\ StartCurlRaises(j, auth_cookies) = "none"
          /\ proc' = [proc EXCEPT ![j] = "running"]
          /\ returncode' = [returncode EXCEPT ![j] = NoCode]
    /\ jpc' = [jpc EXCEPT ![j] = "raised"]
    /\ exc' = "KeyboardInterrupt"
    /\ UNCHANGED <<message, has_out, fsize, auth_cookies, resumeVars, tuiVars, extractVars, mainVars, nameVars, prepVars, max_concurrent,
                   queueVars, cbVars>>

\* KeyboardInterrupt after the polling loop broke (lines 367-378, after the
\* try), before the outcome is assigned: it leaves download_job
JobInterruptClassifying(j) ==
    /\ jpc[j] = "polling"
    /\ proc[j] = "exited"
    /\ jpc' = [jpc EXCEPT ![j] = "raised"]
    /\ exc' = "KeyboardInterrupt"
    /\ UNCHANGED <<jobVars, auth_cookies, resumeVars, tuiVars, extractVars, mainVars, nameVars, prepVars, max_concurrent, queueVars, cbVars>>

\* a caller that runs download_job on one job, again and again (csvdl.py
\* main, and the TUI restarting its queue over the same jobs)
NoCallActive == \A j \in Jobs : jpc[j] # "polling"

JobInit ==
    /\ NoMain
    /\ NoResume
    /\ NoTui
    /\ NoExtract
    /\ NoNaming
    /\ NoPrepare
    /\ InitJobs({1}, ExecKinds, {NoBytes} \cup 0..MaxSize)
    /\ auth_cookies \in AuthValues
    /\ progress_cb \in BOOLEAN
    /\ max_concurrent = 1
    /\ qpc = "off"
    /\ i = 1
    /\ running_downloads = <<>>
    /\ completed_jobs = <<>>
    /\ exc = "none"

JobNext ==
    \/ \E j \in Jobs : NoCallActive /\ JobCall(j)
    \/ \E j \in Jobs : JobPoll(j)
    \/ \E j \in Jobs : JobFinish(j)
    \/ \E j \in Jobs : JobInterrupt(j)
    \/ \E j \in Jobs : NoCallActive /\ JobInterruptStarting(j)
    \/ \E j \in Jobs : JobInterruptClassifying(j)
    \/ \E j \in Jobs : ProcWrite(j)
    \/ \E j \in Jobs : \E c \in ExitCodes : ProcExit(j, c)

JobSpec == JobInit /\ [][JobNext]_vars

\* either entry point of the executor: a download_queue run, or download_job
\* calls on one job
CoreInit == Init \/ JobInit

CoreNext ==
    \/ qpc # "off" /\ Next
    \/ qpc = "off" /\ JobNext

CoreSpec == CoreInit /\ [][CoreNext]_vars

\* ================================================================ strings
\* A Python str is a sequence of atoms; an atom is one separator character
\* ("/", "?", "#", ".", ":", "=", ";", " ", a quote) or a word that holds
\* none of them.  Only these words change under str.lower().
LowerAtom(a) ==
    CASE a = "MKV" -> "mkv"
      [] a = "MP4" -> "mp4"
      [] a = "FILENAME" -> "filename"
      [] a = "Content-Disposition" -> "content-disposition"
      [] a = "Location" -> "location"
      [] a = "Content-Length" -> "content-length"
      [] OTHER -> a

\* s.lower()
Lower(s) == [k \in 1..Len(s) |-> LowerAtom(s[k])]

\* s.startswith(p), s.endswith(p)
StartsWith(s, p) == Len(s) >= Len(p) /\ SubSeq(s, 1, Len(p)) = p
EndsWith(s, p) == Len(s) >= Len(p) /\ SubSeq(s, Len(s) - Len(p) + 1, Len(s)) = p

\* s.find(p), 0-based; only applied when p in s
Find(s, p) ==
    CHOOSE k \in 0..(Len(s) - Len(p)) :
        /\ SubSeq(s, k + 1, k + Len(p)) = p
        /\ \A m \in 0..(k - 1) : SubSeq(s, m + 1, m + Len(p)) # p

\* s.split(p, 1)[0] and s.split(p, 1)[-1]
Before(s, p) == IF Contains(s, p) THEN SubSeq(s, 1, Find(s, p)) ELSE s
After(s, p) ==
    IF Contains(s, p) THEN SubSeq(s, Find(s, p) + Len(p) + 1, Len(s)) ELSE s

\* s.rfind(c) for a one-character c, 1-based, 0 when c is not in s
RFind(s, c) ==
    IF \E k \in 1..Len(s) : s[k] = c
    THEN CHOOSE k \in 1..Len(s) : s[k] = c /\ \A m \in (k + 1)..Len(s) : s[m] # c
    ELSE 0

\* s.lstrip(chars), s.strip(chars)
LStrip(s, chars) ==
    IF \A k \in 1..Len(s) : s[k] \in chars THEN <<>>
    ELSE SubSeq(s, CHOOSE k \in 1..Len(s) :
                        s[k] \notin chars /\ \A m \in 1..(k - 1) : s[m] \in chars,
                Len(s))
Strip(s, chars) ==
    LET l == LStrip(s, chars)
    IN  IF l = <<>> THEN <<>>
        ELSE SubSeq(l, 1, CHOOSE k \in 1..Len(l) :
                        l[k] \notin chars /\ \A m \in (k + 1)..Len(l) : l[m] \in chars)

\* the characters str.strip() removes, and those of strip("\"'\r; ")
Whitespace == {" ", "\r"}
DispositionStrip == {"\"", "'", "\r", ";", " "}

\* os.path.basename(p) (posixpath)
Basename(p) == SubSeq(p, RFind(p, "/") + 1, Len(p))

\* os.path.splitext(p) (posixpath / genericpath._splitext): the extension
\* starts at the last dot of the last component, unless only dots precede it
SplitExt(p) ==
    LET sepIndex == RFind(p, "/")
        dotIndex == RFind(p, ".")
    IN  IF /\ dotIndex > sepIndex
           /\ \E k \in (sepIndex + 1)..(dotIndex - 1) : p[k] # "."
        THEN [base |-> SubSeq(p, 1, dotIndex - 1), ext |-> SubSeq(p, dotIndex, Len(p))]
        ELSE [base |-> p, ext |-> <<>>]

\* Optional[str]
None == [some |-> FALSE, str |-> <<>>]
Some(s) == [some |-> TRUE, str |-> s]
\* "not name" for an Optional[str]
Falsy(o) == ~o.some \/ o.str = <<>>

\* -------------------------------------------------------- infer_filename
IsDispositionLine(line) ==
    /\ StartsWith(Lower(line), <<"content-disposition", ":">>)
    /\ Contains(Lower(line), <<"filename", "=">>)

\* _disposition_filename(headers): the first matching line decides
DispositionFilename(hdrs) ==
    LET hits == {k \in 1..Len(hdrs) : IsDispositionLine(hdrs[k])}
    IN  IF hits = {} THEN None
        ELSE LET line == hdrs[CHOOSE k \in hits : \A m \in hits : k <= m]
                 part == Strip(After(line, <<"filename", "=">>), Whitespace)
             IN  Some(Basename(Strip(part, DispositionStrip)))

IsLocationLine(line) == StartsWith(Lower(line), <<"location", ":">>)

\* _redirect_basename(headers): the last Location line decides
RedirectBasename(hdrs) ==
    LET hits == {k \in 1..Len(hdrs) : IsLocationLine(hdrs[k])}
    IN  IF hits = {} THEN None
        ELSE LET line == hdrs[CHOOSE k \in hits : \A m \in hits : k >= m]
                 loc == Strip(After(line, <<":">>), Whitespace)
             IN  IF loc = <<>> THEN None
                 ELSE Some(Basename(Before(Before(loc, <<"?">>), <<"#">>)))

\* the basename of the URL without query string and fragment
UrlBasename(u) == Basename(Before(Before(u, <<"?">>), <<"#">>))

\* infer_filename, lines 262-267: the candidate name
CandidateUrlFirst(u, hdrs) ==
    IF UrlBasename(u) # <<>> THEN UrlBasename(u)
    ELSE IF ~Falsy(RedirectBasename(hdrs)) THEN RedirectBasename(hdrs).str
    ELSE DispositionFilename(hdrs).str
Candidate(u, hdrs) ==
    IF ~Falsy(DispositionFilename(hdrs)) THEN DispositionFilename(hdrs).str
    ELSE IF ~Falsy(RedirectBasename(hdrs)) THEN RedirectBasename(hdrs).str
    ELSE UrlBasename(u)

\* url.split("/")[-2] if the split has two parts or more, else 'download'
SecondToLast(u) ==
    LET last == RFind(u, "/")
    IN  IF last = 0 THEN <<"download">>
        ELSE SubSeq(u, RFind(SubSeq(u, 1, last - 1), "/") + 1, last - 1)

\* infer_filename, lines 269-271: a bare extension or nothing as the name
FallbackAlways(n, u, ext) == SecondToLast(u) \o <<".">> \o ext
Fallback(n, u, ext) ==
    IF Lower(n) \in {<<"mkv">>, <<"mp4">>, <<>>}
    THEN SecondToLast(u) \o <<".">> \o ext
    ELSE n

\* infer_filename, lines 273-277: normalise the extension
NormalizeKeepForeign(n, ext) ==
    IF Lower(SplitExt(n).ext) \notin {<<".", "mkv">>, <<".", "mp4">>}
    THEN n \o <<".">> \o ext
    ELSE n
Normalize(n, ext) ==
    IF Lower(SplitExt(n).ext) \notin {<<".", "mkv">>, <<".", "mp4">>}
    THEN n \o <<".">> \o ext
    ELSE IF LStrip(Lower(SplitExt(n).ext), {"."}) # Lower(ext)
    THEN SplitExt(n).base \o <<".">> \o ext
    ELSE n

InferFilename(u, hdrs, ext) ==
    Basename(Normalize(Fallback(Candidate(u, hdrs), u, ext), ext))

\* the strings of at most n atoms
StrUpTo(atoms, n) == UNION {[1..k -> atoms] : k \in 0..n}

\* the URLs tried
UrlAtoms == {"/", "?", "#", ".", "a", "mkv", "MP4"}
Urls == StrUpTo(UrlAtoms, MaxUrlLen)

\* the values of --ext (csvdl.py:13, krdl_dl.py:18)
Exts == {<<"mkv">>, <<"mp4">>}

\* header lines of a curl -sIL probe
Disposition(param, value) ==
    <<"Content-Disposition", ":", " ", "attachment", ";", " ", param, "=">> \o value
Location(value) == <<"Location", ":", " ">> \o value
ContentLength(value) == <<"Content-Length", ":", " ">> \o value

HeaderLines ==
    {Disposition("filename", v) :
        v \in {<<>>, <<"\"", "b", ".", "mkv", "\"">>, <<"d", "/", "b", ".", "MP4">>, <<"mkv">>}}
    \cup {Disposition("FILENAME", <<"b", ".", "mkv">>)}
    \cup {Location(v) : v \in {<<"/", "r", ".", "mkv", "?", "a">>, <<"/", "r", "/", "#", "a">>}}
    \cup {ContentLength(<<"1">>)}

\* the probe results tried: at most two header lines
HeaderTexts ==
    {<<>>} \cup {<<l>> : l \in HeaderLines}
           \cup {<<l, m>> : l \in HeaderLines, m \in HeaderLines}

\* no job list at all
NoDownload ==
    /\ InitJobs({0}, ExecKinds, {NoBytes})
    /\ max_concurrent = 1
    /\ progress_cb = FALSE
    /\ qpc = "off"
    /\ i = 1
    /\ running_downloads = <<>>
    /\ completed_jobs = <<>>
    /\ exc = "none"

\* infer_filename(url, headers, desired_ext) has just been called
InferInit ==
    /\ NoMain
    /\ NoResume
    /\ NoTui
    /\ NoExtract
    /\ NoDownload
    /\ auth_cookies = "None"
    /\ NoPrepare
    /\ url \in Urls
    /\ headers \in HeaderTexts
    /\ desired_ext \in Exts
    /\ name = <<>>
    /\ ipc = "call"

InferReturn ==
    /\ ipc = "call"
    /\ name' = InferFilename(url, headers, desired_ext)
    /\ ipc' = "returned"
    /\ UNCHANGED <<jobVars, auth_cookies, resumeVars, tuiVars, extractVars, mainVars, max_concurrent, queueVars, jpc, exc,
                   cbVars, url, headers, desired_ext, prepVars>>

\* directories a caller puts in front of a name to make a URL of it
UrlPrefixes == {<<>>, <<"a", "/">>}

\* the caller calls infer_filename again, with a URL that ends in the name
\* just returned and an empty probe
InferAgain ==
    /\ ipc = "returned"
    /\ \E pre \in UrlPrefixes :
        /\ url' = pre \o name
        /\ headers' = <<>>
        /\ name' = InferFilename(pre \o name, <<>>, desired_ext)
    /\ ipc' = "again"
    /\ UNCHANGED <<jobVars, auth_cookies, resumeVars, tuiVars, extractVars, mainVars, max_concurrent, queueVars, jpc, exc,
                   cbVars, desired_ext, prepVars>>

InferNext ==
    \/ InferReturn
    \/ InferAgain

InferSpec == InferInit /\ [][InferNext]_vars

\* ---------------------------------------------------------- prepare_jobs
\* url_matches_extension(url, desired_ext)
UrlMatchesExtension(u, ext) ==
    LET lu == Lower(u)
    IN  \/ EndsWith(lu, <<".">> \o ext)
        \/ EndsWith(lu, <<"/">> \o ext)
        \/ Contains(lu, <<"/">> \o ext \o <<"?">>)
        \/ Contains(lu, <<"/">> \o ext \o <<"#">>)

\* int(s) of _content_length: NoBytes stands for a ValueError
IntOf(s) ==
    IF s = <<"0">> THEN 0 ELSE IF s = <<"1">> THEN 1 ELSE IF s = <<"2">> THEN 2
    ELSE NoBytes

IsLengthLine(line) ==
    /\ StartsWith(Lower(line), <<"content-length", ":">>)
    /\ IntOf(Strip(After(line, <<":">>), Whitespace)) # NoBytes

\* _content_length(headers): the last Content-Length that parses
ContentLengthOf(hdrs) ==
    LET hits == {k \in 1..Len(hdrs) : IsLengthLine(hdrs[k])}
    IN  IF hits = {} THEN NoBytes
        ELSE IntOf(Strip(After(hdrs[CHOOSE k \in hits : \A m \in hits : k >= m],
                               <<":">>), Whitespace))

\* prepare_jobs, lines 285-288: the quick filter keeps the URL
KeptByNameOnly(u, hdrs, ext) ==
    /\ ~UrlMatchesExtension(u, ext)
    /\ EndsWith(Lower(InferFilename(u, hdrs, ext)), <<".">> \o ext)
Kept(u, hdrs, ext) ==
    \/ UrlMatchesExtension(u, ext)
    \/ EndsWith(Lower(InferFilename(u, hdrs, ext)), <<".">> \o ext)

\* prepare_jobs, line 293: "SKIP" if out.exists() else "QUEUED"
StatusFromAbsence(n, dir) == IF n \in dir THEN "QUEUED" ELSE "SKIP"
StatusFromExistence(n, dir) == IF n \in dir THEN "SKIP" ELSE "QUEUED"

\* the Job of line 294
NewJob(u, hdrs, ext, dir) ==
    [url |-> u, ext |-> ext, name |-> InferFilename(u, hdrs, ext),
     expected_bytes |-> ContentLengthOf(hdrs),
     status |-> StatusFromExistence(InferFilename(u, hdrs, ext), dir)]

\* the URLs and the probe results tried with prepare_jobs
PrepUrls == {<<"a", ".", "mkv">>, <<"a", ".", "MP4">>, <<"a">>}
PrepHeaders ==
    {<<>>,
     <<Disposition("filename", <<"\"", "b", ".", "mkv", "\"">>), ContentLength(<<"1">>)>>}

\* the files of target_dir that come and go
WatchedNames(ext) == {<<"a", ".">> \o ext, <<"b", ".">> \o ext}

\* prepare_jobs(urls, desired_ext, target_dir, auth_cookies) has just been
\* called
PrepInit ==
    /\ NoMain
    /\ NoResume
    /\ NoTui
    /\ NoExtract
    /\ NoDownload
    /\ auth_cookies \in AuthValues
    /\ url = <<>>
    /\ headers = <<>>
    /\ name = <<>>
    /\ ipc = "off"
    /\ desired_ext \in Exts
    /\ urls \in UNION {[1..n -> PrepUrls] : n \in 0..MaxUrls}
    /\ target_dir \in SUBSET WatchedNames(desired_ext)
    /\ jobs = <<>>
    /\ probes = <<>>
    /\ ppc = "loop"

\* what subprocess.check_output does in _curl_headers: it returns curl's
\* output ("ok"), raises CalledProcessError (curl exits non-zero) or raises
\* FileNotFoundError (curl cannot be started)
ProbeOutcomes == {"ok", "CalledProcessError", "FileNotFoundError"}

\* the exceptions _curl_headers turns into "" (line 220)
ProbeCaught == {"CalledProcessError"}

\* prepare_jobs, line 284: the auth_cookies it hands to _curl_headers
\* (faulty variant: the caller's)
ProbeAuthOfCaller(auth) == auth
ProbeAuth(auth) == "None"

\* one iteration of the for loop: probe the URL, filter, build the job
PrepareStep ==
    /\ ppc = "loop"
    /\ Len(probes) < Len(urls)
    /\ LET u == urls[Len(probes) + 1]
       IN  \E out \in {"ok"} \cup ProbeCaught :
           \E hdr \in IF out = "ok" THEN PrepHeaders ELSE {<<>>} :
            /\ probes' = Append(probes, <<u, ProbeAuth(auth_cookies), out>>)
            /\ jobs' = IF Kept(u, hdr, desired_ext)
                       THEN Append(jobs, NewJob(u, hdr, desired_ext, target_dir))
                       ELSE jobs
    /\ UNCHANGED <<jobVars, auth_cookies, resumeVars, tuiVars, extractVars, mainVars, max_concurrent, queueVars, jpc, exc,
                   cbVars, nameVars, urls, target_dir, ppc>>

\* the probe raises an exception _curl_headers does not catch: it leaves
\* prepare_jobs
PrepareRaise ==
    /\ ppc = "loop"
    /\ Len(probes) < Len(urls)
    /\ \E out \in ProbeOutcomes \ ({"ok"} \cup ProbeCaught) :
        /\ probes' = Append(probes, <<urls[Len(probes) + 1], ProbeAuth(auth_cookies), out>>)
        /\ exc' = out
    /\ ppc' = "raised"
    /\ UNCHANGED <<jobVars, auth_cookies, resumeVars, tuiVars, extractVars, mainVars, max_concurrent, queueVars, jpc,
                   cbVars, nameVars, urls, target_dir, jobs>>

\* return jobs
PrepareReturn ==
    /\ ppc = "loop"
    /\ Len(probes) = Len(urls)
    /\ ppc' = "returned"
    /\ UNCHANGED <<jobVars, auth_cookies, resumeVars, tuiVars, extractVars, mainVars, max_concurrent, queueVars, jpc, exc,
                   cbVars, nameVars, urls, target_dir, jobs, probes>>

\* somebody creates or deletes a file of target_dir
FileCreate(n) ==
    /\ n \notin target_dir
    /\ target_dir' = target_dir \cup {n}
    /\ UNCHANGED <<jobVars, auth_cookies, resumeVars, tuiVars, extractVars, mainVars, max_concurrent, queueVars, jpc, exc,
                   cbVars, nameVars, urls, jobs, probes, ppc>>

FileDelete(n) ==
    /\ n \in target_dir
    /\ target_dir' = target_dir \ {n}
    /\ UNCHANGED <<jobVars, auth_cookies, resumeVars, tuiVars, extractVars, mainVars, max_concurrent, queueVars, jpc, exc,
                   cbVars, nameVars, urls, jobs, probes, ppc>>

PrepNext ==
    \/ PrepareStep
    \/ PrepareRaise
    \/ PrepareReturn
    \/ \E n \in WatchedNames(desired_ext) : FileCreate(n)
    \/ \E n \in WatchedNames(desired_ext) : FileDelete(n)

PrepSpec == PrepInit /\ [][PrepNext]_vars

\* either way a file name is made: a call of infer_filename, or a
\* prepare_jobs run
NameInit == InferInit \/ PrepInit

NameNext ==
    \/ ipc # "off" /\ InferNext
    \/ ppc # "off" /\ PrepNext

NameSpec == NameInit /\ [][NameNext]_vars

\* ------------------------------------------------------------ krdl_dl main
\* the number of the jobs of a list that have a status
CountStatus(js, st) == Cardinality({k \in 1..Len(js) : status[js[k]] = st})

\* the lists of at most n different URLs
DistinctUrls(n) ==
    {us \in UNION {[1..m -> PrepUrls] : m \in 0..n} :
        \A a, b \in 1..Len(us) : us[a] = us[b] => a = b}

\* main has parsed its arguments, logged in and scraped the page, and calls
\* prepare_jobs
MainInit ==
    /\ NoResume
    /\ NoTui
    /\ NoExtract
    /\ NoDownload
    /\ auth_cookies \in AuthValues
    /\ url = <<>>
    /\ headers = <<>>
    /\ name = <<>>
    /\ ipc = "off"
    /\ desired_ext \in Exts
    /\ urls \in DistinctUrls(MaxUrls)
    /\ target_dir \in SUBSET WatchedNames(desired_ext)
    /\ jobs = <<>>
    /\ probes = <<>>
    /\ ppc = "loop"
    /\ args_jobs \in 1..MaxConcurrent
    /\ summary = <<>>
    /\ mpc = "prepare"

\* lines 55-62: nothing is QUEUED, main returns without a summary
MainNothing ==
    /\ mpc = "prepare"
    /\ ppc = "returned"
    /\ QueuedJobs = <<>>
    /\ mpc' = "done"
    /\ UNCHANGED <<jobVars, auth_cookies, resumeVars, tuiVars, extractVars, max_concurrent, queueVars, jpc, exc,
                   cbVars, nameVars, prepVars, args_jobs, summary>>

\* line 65: download_queue(queued_jobs, auth_cookies=auth_cookies,
\* max_concurrent=2)
MainQueue ==
    /\ mpc = "prepare"
    /\ ppc = "returned"
    /\ QueuedJobs # <<>>
    /\ LET n == Len(QueuedJobs)
       IN  /\ status = <<>>
           /\ status' = [j \in 1..n |-> "QUEUED"]
           /\ message' = [j \in 1..n |-> MsgEmpty]
           /\ has_out' = [j \in 1..n |-> TRUE]
           /\ fsize' = [j \in 1..n |-> 0]
           /\ proc' = [j \in 1..n |-> "none"]
           /\ returncode' = [j \in 1..n |-> NoCode]
           /\ jpc' = [j \in 1..n |-> "idle"]
           /\ expected_bytes' = [j \in 1..n |-> QueuedJobs[j].expected_bytes]
           /\ cb_last' = [j \in 1..n |-> <<>>]
    /\ max_concurrent' = 2
    /\ progress_cb' = FALSE
    /\ qpc' = "loop"
    /\ i' = 1
    /\ running_downloads' = <<>>
    /\ completed_jobs' = <<>>
    /\ mpc' = "queue"
    /\ UNCHANGED <<auth_cookies, resumeVars, tuiVars, extractVars, exc, nameVars, prepVars, args_jobs, summary>>

\* lines 67-75: the summary
MainSummary ==
    /\ mpc = "queue"
    /\ qpc = "done"
    /\ summary' = <<CountStatus(completed_jobs, "DONE"),
                    CountStatus(completed_jobs, "FAIL"),
                    CountStatus(completed_jobs, "SKIP")>>
    /\ mpc' = "done"
    /\ UNCHANGED <<jobVars, auth_cookies, resumeVars, tuiVars, extractVars, max_concurrent, queueVars, jpc, exc,
                   cbVars, nameVars, prepVars, args_jobs>>

MainNext ==
    \/ mpc = "prepare" /\ PrepareStep
    \/ mpc = "prepare" /\ PrepareRaise
    \/ mpc = "prepare" /\ PrepareReturn
    \/ MainNothing
    \/ MainQueue
    \/ mpc = "queue" /\ Next
    \/ MainSummary

MainSpec == MainInit /\ [][MainNext]_vars

\* krdl_dl is run again with the same arguments, after a run that is over:
\* the files the downloads of that run wrote to are in target_dir, the jobs
\* and the queue of that run are gone
MainRerun ==
    /\ mpc = "done"
    /\ partial_urls' = {QueuedJobs[j].url :
                           j \in {k \in Jobs : status[k] = "PAUSED" /\ fsize[k] > 0}}
    /\ target_dir' = target_dir \cup
                        {QueuedJobs[j].name : j \in {k \in Jobs : fsize[k] > 0}}
    /\ status' = <<>>
    /\ message' = <<>>
    /\ has_out' = <<>>
    /\ fsize' = <<>>
    /\ proc' = <<>>
    /\ returncode' = <<>>
    /\ jpc' = <<>>
    /\ expected_bytes' = <<>>
    /\ cb_last' = <<>>
    /\ max_concurrent' = 1
    /\ progress_cb' = FALSE
    /\ qpc' = "off"
    /\ i' = 1
    /\ running_downloads' = <<>>
    /\ completed_jobs' = <<>>
    /\ exc' = "none"
    /\ jobs' = <<>>
    /\ probes' = <<>>
    /\ ppc' = "loop"
    /\ summary' = <<>>
    /\ mpc' = "prepare"
    /\ UNCHANGED <<auth_cookies, tuiVars, extractVars, nameVars, urls, args_jobs>>

\* runs of krdl_dl on one URL and a target directory that starts empty, the
\* user logged in
ResumeInit ==
    /\ MainInit
    /\ Len(urls) = 1
    /\ target_dir = {}
    /\ auth_cookies = "sid=1"

ResumeNext == MainNext \/ MainRerun
ResumeSpec == ResumeInit /\ [][ResumeNext]_vars

\* the whole pipeline: prepare_jobs, download_queue, or download_job calls
AllInit == CoreInit \/ PrepInit

AllNext ==
    \/ CoreNext
    \/ ppc # "off" /\ PrepNext

AllSpec == AllInit /\ [][AllNext]_vars

\* ------------------------------------------------- extract_urls_from_text
\* The file is a sequence of characters and words: a word that starts with a
\* scheme is an atom of its own, the scheme spelt in lower or in upper case.
Separators == {" ", "\n", ",", "\""}
SchemeWords == {"http://a", "HTTP://a", "http://b"}
TextAtoms == SchemeWords \cup {"x"} \cup Separators
Texts == StrUpTo(TextAtoms, MaxTextLen)

\* the first position of s that holds an element of set, 0 when none does
FirstIn(s, set) ==
    IF \E k \in 1..Len(s) : s[k] \in set
    THEN CHOOSE k \in 1..Len(s) :
            s[k] \in set /\ \A m \in 1..(k - 1) : s[m] \notin set
    ELSE 0

\* line 196, "for line in f": the lines of the file, each with its newline
RECURSIVE SplitLines(_)
SplitLines(t) ==
    IF t = <<>> THEN <<>>
    ELSE LET k == FirstIn(t, {"\n"})
         IN  IF k = 0 THEN <<t>>
             ELSE <<SubSeq(t, 1, k)>> \o SplitLines(SubSeq(t, k + 1, Len(t)))

\* URL_RE.findall(line), line 28: a match starts at a scheme, wherever it
\* stands, and runs up to the next white space, double quote or comma
RECURSIVE FindAll(_)
FindAll(l) ==
    LET s == FirstIn(l, SchemeWords)
    IN  IF s = 0 THEN <<>>
        ELSE LET rest == SubSeq(l, s, Len(l))
                 e == FirstIn(rest, Separators)
                 m == IF e = 0 THEN rest ELSE SubSeq(rest, 1, e - 1)
             IN  <<m>> \o FindAll(SubSeq(rest, Len(m) + 1, Len(rest)))

\* lines 196-197: urls.extend(...) over the lines
RECURSIVE FoundIn(_)
FoundIn(ls) ==
    IF ls = <<>> THEN <<>> ELSE FindAll(Head(ls)) \o FoundIn(Tail(ls))

\* lines 199-204: de-dup, keep order
\* (faulty variant: of equal URLs the last one is kept)
RECURSIVE DedupKeepLast(_)
DedupKeepLast(us) ==
    IF us = <<>> THEN <<>>
    ELSE IF Head(us) \in Range(Tail(us)) THEN DedupKeepLast(Tail(us))
    ELSE <<Head(us)>> \o DedupKeepLast(Tail(us))
RECURSIVE Dedup(_)
Dedup(us) ==
    IF us = <<>> THEN <<>>
    ELSE LET front == Dedup(SubSeq(us, 1, Len(us) - 1))
             u == us[Len(us)]
         IN  IF u \in Range(front) THEN front ELSE Append(front, u)

ExtractUrlsFromText(t) == Dedup(FoundIn(SplitLines(t)))

ExtractInit ==
    /\ NoDownload
    /\ NoNaming
    /\ NoPrepare
    /\ NoMain
    /\ NoResume
    /\ NoTui
    /\ auth_cookies = "None"
    /\ text \in Texts
    /\ out_urls = <<>>
    /\ xpc = "call"

ExtractReturn ==
    /\ xpc = "call"
    /\ out_urls' = ExtractUrlsFromText(text)
    /\ xpc' = "returned"
    /\ UNCHANGED <<jobVars, auth_cookies, resumeVars, tuiVars, mainVars, nameVars, prepVars, max_concurrent,
                   queueVars, jpc, exc, cbVars, text>>

ExtractNext == ExtractReturn
ExtractSpec == ExtractInit /\ [][ExtractNext]_vars

\* ------------------------------------------------------ csvdl_tui (TUI)
\* DownloaderApp after on_mount: self.jobs is what prepare_jobs returned,
\* self.running is False, no runner exists.  Coroutines of the event loop
\* (the key and button handlers, _runner, run_one) run from one await to
\* the next without interleaving; download_job runs in a worker thread.
TuiInit ==
    /\ NoMain
    /\ NoResume
    /\ NoExtract
    /\ NoNaming
    /\ NoPrepare
    /\ InitJobs(1..MaxJobs, {KindQueued, KindSkip}, {NoBytes})
    /\ auth_cookies = "None"
    /\ progress_cb = TRUE
    /\ max_concurrent = 1
    /\ qpc = "off"
    /\ i = 1
    /\ running_downloads = <<>>
    /\ completed_jobs = <<>>
    /\ exc = "none"
    /\ app_running = FALSE
    /\ max_workers \in 1..MaxConcurrent
    /\ runners = <<>>
    /\ tasks = {}
    /\ tpc = "on"

\* the run_one tasks runner r created that have not finished
TasksOf(r) == {t \in tasks : t.runner = r}

\* _runner, lines 116-131: the for loop from position p on with s free
\* permits of sem, up to the await at which it suspends; started holds the
\* jobs it has created a run_one task for
RECURSIVE RunnerLoop(_, _, _, _)
RunnerLoop(r, p, s, started) ==
    IF p > Cardinality(Jobs) \/ (status[p] # "SKIP" /\ ~app_running)
    THEN [pos |-> p, sem |-> s, started |-> started,
          rpc |-> IF TasksOf(r) = {} /\ started = {} THEN "done" ELSE "gather"]
    ELSE IF status[p] = "SKIP" THEN RunnerLoop(r, p + 1, s, started)
    ELSE IF s = 0
    THEN [pos |-> p, sem |-> s, started |-> started, rpc |-> "acquire"]
    ELSE RunnerLoop(r, p + 1, s - 1, started \cup {p})

\* runner r goes on as far as res says
RunnerGoes(r, res) ==
    /\ runners' = [runners EXCEPT
                     ![r] = [pos |-> res.pos, sem |-> res.sem, rpc |-> res.rpc]]
    /\ tasks' = tasks \cup
                  {[runner |-> r, job |-> j, phase |-> "created"] : j \in res.started}

\* run_queue, lines 135-140 (ENTER or the Start button): nothing while
\* self.running is set, else a new _runner task
TuiStart ==
    /\ tpc = "on"
    /\ ~app_running
    /\ Len(runners) < MaxRunners
    /\ app_running' = TRUE
    /\ runners' = Append(runners, [pos |-> 1, sem |-> max_workers, rpc |-> "created"])
    /\ UNCHANGED <<jobVars, auth_cookies, resumeVars, extractVars, mainVars, nameVars, prepVars,
                   max_concurrent, queueVars, jpc, exc, cbVars, max_workers, tasks, tpc>>

\* on_key "P" / the Pause button, lines 70-72 and 146-147
TuiPause ==
    /\ tpc = "on"
    /\ app_running
    /\ app_running' = FALSE
    /\ UNCHANGED <<jobVars, auth_cookies, resumeVars, extractVars, mainVars, nameVars, prepVars,
                   max_concurrent, queueVars, jpc, exc, cbVars, max_workers, runners,
                   tasks, tpc>>

\* on_key "Q" / the Quit button: self.exit()
TuiQuit ==
    /\ tpc = "on"
    /\ tpc' = "exited"
    /\ UNCHANGED <<jobVars, auth_cookies, resumeVars, extractVars, mainVars, nameVars, prepVars,
                   max_concurrent, queueVars, jpc, exc, cbVars, app_running,
                   max_workers, runners, tasks>>

\* _runner starts: sem = asyncio.Semaphore(self.max_workers), then the loop
RunnerRun(r) ==
    /\ tpc = "on"
    /\ runners[r].rpc = "created"
    /\ RunnerGoes(r, RunnerLoop(r, 1, max_workers, {}))
    /\ UNCHANGED <<jobVars, auth_cookies, resumeVars, extractVars, mainVars, nameVars, prepVars,
                   max_concurrent, queueVars, jpc, exc, cbVars, app_running,
                   max_workers, tpc>>

\* lines 123-131: "await sem.acquire()" returns once a permit was released;
\* the run_one task of the job waited for is created, then the loop goes on
RunnerWake(r) ==
    /\ tpc = "on"
    /\ runners[r].rpc = "acquire"
    /\ runners[r].sem > 0
    /\ RunnerGoes(r, RunnerLoop(r, runners[r].pos + 1, runners[r].sem - 1,
                                {runners[r].pos}))
    /\ UNCHANGED <<jobVars, auth_cookies, resumeVars, extractVars, mainVars, nameVars, prepVars,
                   max_concurrent, queueVars, jpc, exc, cbVars, app_running,
                   max_workers, tpc>>

\* lines 132-133: asyncio.gather returns (or raises) when the run_one tasks
\* of the runner are over
RunnerGather(r) ==
    /\ tpc = "on"
    /\ runners[r].rpc = "gather"
    /\ TasksOf(r) = {}
    /\ runners' = [runners EXCEPT ![r].rpc = "done"]
    /\ UNCHANGED <<jobVars, auth_cookies, resumeVars, extractVars, mainVars, nameVars, prepVars,
                   max_concurrent, queueVars, jpc, exc, cbVars, app_running,
                   max_workers, tasks, tpc>>

\* run_one, line 126, and _run_job, line 97: the worker thread enters
\* download_job(j, progress_cb=...), which sets status RUNNING (line 341)
TaskBegin(t) ==
    /\ tpc = "on"
    /\ t.phase = "created"
    /\ tasks' = (tasks \ {t}) \cup {[t EXCEPT !.phase = "executing"]}
    /\ status' = [status EXCEPT
                    ![t.job] = IF @ \in PassThrough THEN @ ELSE "RUNNING"]
    /\ UNCHANGED <<message, has_out, fsize, proc, returncode, auth_cookies, resumeVars, extractVars,
                   mainVars, nameVars, prepVars, max_concurrent, queueVars, jpc, exc,
                   cbVars, app_running, max_workers, runners, tpc>>

\* download_job is left: called without auth_cookies, _start_curl raises at
\* line 344; run_one releases the permit (line 128)
TaskEnd(t) ==
    /\ tpc = "on"
    /\ t.phase = "executing"
    /\ tasks' = tasks \ {t}
    /\ exc' = StartCurlRaises(t.job, "None")
    /\ runners' = [runners EXCEPT ![t.runner].sem = @ + 1]
    /\ UNCHANGED <<jobVars, auth_cookies, resumeVars, extractVars, mainVars, nameVars, prepVars,
                   max_concurrent, queueVars, jpc, cbVars, app_running, max_workers,
                   tpc>>

TuiNext ==
    \/ TuiStart
    \/ TuiPause
    \/ TuiQuit
    \/ \E r \in 1..Len(runners) : RunnerRun(r)
    \/ \E r \in 1..Len(runners) : RunnerWake(r)
    \/ \E r \in 1..Len(runners) : RunnerGather(r)
    \/ \E t \in tasks : TaskBegin(t)
    \/ \E t \in tasks : TaskEnd(t)

TuiSpec == TuiInit /\ [][TuiNext]_vars

\* ------------------------------- KrdlSeleniumDownloader.download_queue
\* The browser downloads a job's file on its own: proc[j] is "running" from
\* driver.get(job.url) on and "exited" once the final file exists in the
\* target directory, which is what _is_download_finished looks for.
SelInit ==
    /\ NoMain
    /\ NoResume
    /\ NoExtract
    /\ NoTui
    /\ NoNaming
    /\ NoPrepare
    /\ InitJobs(1..MaxJobs, {KindQueued, KindSkip}, {NoBytes})
    /\ auth_cookies = "None"
    /\ max_concurrent \in 1..MaxConcurrent
    /\ progress_cb = FALSE
    /\ qpc = "loop"
    /\ i = 1
    /\ running_downloads = <<>>
    /\ completed_jobs = <<>>
    /\ exc = "none"

\* lines 420-430 and 487-496: the downloads found finished are taken off
\* running_downloads
SelPollPass ==
    running_downloads' = SelectIn(running_downloads, Jobs \ Finished(running_downloads))

\* lines 410-412: a SKIP job goes to completed_jobs
SelSkip ==
    /\ qpc = "loop"
    /\ i \in Jobs
    /\ status[i] = "SKIP"
    /\ completed_jobs' = Append(completed_jobs, i)
    /\ i' = i + 1
    /\ UNCHANGED <<jobVars, auth_cookies, resumeVars, tuiVars, extractVars, mainVars, nameVars, prepVars,
                   max_concurrent, qpc, running_downloads, jpc, exc, cbVars>>

\* lines 417-430: no free slot, sleep and poll
SelWait ==
    /\ qpc = "loop"
    /\ i \in Jobs
    /\ status[i] # "SKIP"
    /\ Len(running_downloads) >= max_concurrent
    /\ SelPollPass
    /\ UNCHANGED <<jobVars, auth_cookies, resumeVars, tuiVars, extractVars, mainVars, nameVars, prepVars,
                   max_concurrent, qpc, i, completed_jobs, jpc, exc, cbVars>>

\* lines 432-481: driver.get(job.url) starts the browser download and the
\* job joins running_downloads
SelStart ==
    /\ qpc = "loop"
    /\ i \in Jobs
    /\ status[i] # "SKIP"
    /\ Len(running_downloads) < max_concurrent
    /\ proc' = [proc EXCEPT ![i] = "running"]
    /\ running_downloads' = Append(running_downloads, i)
    /\ i' = i + 1
    /\ UNCHANGED <<status, message, has_out, fsize, returncode, auth_cookies, resumeVars, tuiVars,
                   extractVars, mainVars, nameVars, prepVars, max_concurrent, qpc,
                   completed_jobs, jpc, exc, cbVars>>

\* lines 458-466: the browser was sent to a register or premium page, the
\* queue returns completed_jobs at once
SelRateLimited ==
    /\ qpc = "loop"
    /\ i \in Jobs
    /\ status[i] # "SKIP"
    /\ Len(running_downloads) < max_concurrent
    /\ qpc' = "done"
    /\ UNCHANGED <<jobVars, auth_cookies, resumeVars, tuiVars, extractVars, mainVars, nameVars, prepVars,
                   max_concurrent, i, running_downloads, completed_jobs, jpc, exc,
                   cbVars>>

\* lines 484-496: wait for the remaining downloads
SelDrain ==
    /\ qpc = "loop"
    /\ i \notin Jobs
    /\ running_downloads # <<>>
    /\ SelPollPass
    /\ UNCHANGED <<jobVars, auth_cookies, resumeVars, tuiVars, extractVars, mainVars, nameVars, prepVars,
                   max_concurrent, qpc, i, completed_jobs, jpc, exc, cbVars>>

\* lines 498-499
SelReturn ==
    /\ qpc = "loop"
    /\ i \notin Jobs
    /\ running_downloads = <<>>
    /\ qpc' = "done"
    /\ UNCHANGED <<jobVars, auth_cookies, resumeVars, tuiVars, extractVars, mainVars, nameVars, prepVars,
                   max_concurrent, i, running_downloads, completed_jobs, jpc, exc,
                   cbVars>>

\* the browser writes to the .crdownload file of a download (lines 517-529)
BrowserWrites(j) ==
    /\ proc[j] = "running"
    /\ fsize[j] < MaxSize
    /\ fsize' = [fsize EXCEPT ![j] = @ + 1]
    /\ UNCHANGED <<status, message, has_out, proc, returncode, auth_cookies, resumeVars, tuiVars,
                   extractVars, mainVars, nameVars, prepVars, max_concurrent, queueVars,
                   jpc, exc, cbVars>>

\* the browser completes a download: the final file is in the target
\* directory (lines 505-514)
BrowserCompletes(j) ==
    /\ proc[j] = "running"
    /\ proc' = [proc EXCEPT ![j] = "exited"]
    /\ UNCHANGED <<fsize, status, message, has_out, returncode, auth_cookies, resumeVars, tuiVars,
                   extractVars, mainVars, nameVars, prepVars, max_concurrent, queueVars,
                   jpc, exc, cbVars>>

SelNext ==
    \/ SelSkip
    \/ SelWait
    \/ SelStart
    \/ SelRateLimited
    \/ SelDrain
    \/ SelReturn
    \/ \E j \in Jobs : BrowserWrites(j)
    \/ \E j \in Jobs : BrowserCompletes(j)

SelSpec == SelInit /\ [][SelNext]_vars

TypeOK ==
    /\ status \in [Jobs -> Statuses]
    /\ message \in [Jobs -> Seq(STRING)]
    /\ has_out \in [Jobs -> BOOLEAN]
    /\ jpc \in [Jobs -> {"idle", "polling", "returned", "interrupted", "raised"}]
    /\ exc \in {"none", "AssertionError", "ValueError", "KeyboardInterrupt",
               "FileNotFoundError"}
    /\ i \in 1..(Cardinality(Jobs) + 1)
    /\ Range(running_downloads) \subseteq Jobs
    /\ Range(completed_jobs) \subseteq Jobs
    /\ proc \in [Jobs -> {"none", "running", "exited"}]
    /\ returncode \in [Jobs -> ExitCodes \cup {NoCode, TermCode}]
    /\ fsize \in [Jobs -> 0..MaxSize]
    /\ qpc \in {"off", "loop", "done", "raised"}
    /\ ipc \in {"off", "call", "returned", "again"}
    /\ ppc \in {"off", "loop", "returned", "raised"}
    /\ mpc \in {"off", "prepare", "queue", "done"}
    /\ args_jobs \in 1..(MaxConcurrent + 1)
    /\ Len(summary) \in {0, 3}
    /\ desired_ext \in Exts
    /\ Len(probes) <= Len(urls)
    /\ Len(jobs) <= Len(probes)
    /\ xpc \in {"off", "call", "returned"}
    /\ tpc \in {"off", "on", "exited"}
    /\ app_running \in BOOLEAN
    /\ max_workers \in 1..MaxConcurrent
    /\ Len(runners) <= MaxRunners
    /\ \A t \in tasks : t.runner \in 1..Len(runners) /\ t.job \in Jobs
    /\ partial_urls \subseteq Range(urls)

\* ================================================================ claims
\* jobs whose curl process was started by download_queue and not yet reaped
\* into completed_jobs
InFlight == {j \in Jobs : proc[j] # "none" /\ j \notin Range(completed_jobs)}

\* a step of download_queue that starts the transport of job j
StartsTransport(j) == proc[j] = "none" /\ proc'[j] = "running"

\* C1: in download_queue the number of jobs whose transport has been started
\* and not yet reaped never exceeds max_concurrent.
C1_AtMostMaxConcurrentInFlight ==
    Cardinality(InFlight) <= max_concurrent

C1_Witness ==
    /\ max_concurrent = 2
    /\ Cardinality(InFlight) = 2
    /\ \E j \in InFlight : proc[j] = "exited"

\* C2: a transport is started only while fewer than max_concurrent jobs are
\* in flight, and every job started earlier that is no longer in flight has
\* an exited process and its terminal status; with max_concurrent = 1 the
\* earlier jobs are all DONE, FAIL or PAUSED when the next transport starts.
C2_AdmissionWaitsForTerminal ==
    [][\A j \in Jobs : StartsTransport(j) =>
          /\ Cardinality(InFlight) < max_concurrent
          /\ \A k \in Jobs : (proc[k] # "none" /\ k \notin InFlight) =>
                /\ proc[k] = "exited"
                /\ status[k] \in {"DONE", "FAIL", "PAUSED"}
          /\ max_concurrent = 1 =>
                \A k \in Jobs : proc[k] # "none" =>
                    /\ proc[k] = "exited"
                    /\ k \in Range(completed_jobs)
                    /\ status[k] \in {"DONE", "FAIL", "PAUSED"}]_vars

C2_Witness ==
    /\ Cardinality(Jobs) = 2
    /\ max_concurrent = 1
    /\ proc[1] = "exited" /\ status[1] = "FAIL" /\ 1 \in Range(completed_jobs)
    /\ proc[2] = "running"

\* C3: download_queue starts the transports of the non-SKIP jobs in input
\* order: when job j is started every non-SKIP job before it has been started
\* and no job after it has.
C3_StartsInInputOrder ==
    [][\A j \in Jobs : StartsTransport(j) =>
          /\ \A k \in Jobs : (k < j /\ status[k] # "SKIP") => proc[k] # "none"
          /\ \A k \in Jobs : k > j => proc[k] = "none"]_vars

C3_Witness ==
    /\ Cardinality(Jobs) = 2
    /\ proc[1] = "running" /\ proc[2] = "exited"
    /\ running_downloads = <<1, 2>>

\* C4: when download_queue returns, the result holds every input job exactly
\* once, every job is DONE, FAIL, PAUSED or SKIP, and no transport is still in
\* flight.
C4_ReturnsAllJobsTerminal ==
    qpc = "done" =>
        /\ Len(completed_jobs) = Cardinality(Jobs)
        /\ Range(completed_jobs) = Jobs
        /\ \A j \in Jobs : status[j] \in Terminal
        /\ \A j \in Jobs : proc[j] # "running"
        /\ InFlight = {}
        /\ running_downloads = <<>>

C4_Witness ==
    /\ Cardinality(Jobs) = 2
    /\ qpc = "done"
    /\ status[1] = "PAUSED" /\ proc[1] = "exited"
    /\ status[2] = "DONE" /\ proc[2] = "exited"

\* the input list, as the sequence of its jobs
InputOrder == [n \in 1..Cardinality(Jobs) |-> n]

\* what a step appends to completed_jobs
Appended == SubSeq(completed_jobs', Len(completed_jobs) + 1, Len(completed_jobs'))

\* C5 (as claimed): the list download_queue returns has the jobs in the order
\* of the input list.
C5_ResultInInputOrder ==
    qpc = "done" => completed_jobs = InputOrder

\* C5 (amended): the list download_queue returns is a permutation of the
\* input list in completion order: completed_jobs only grows at its end, by a
\* SKIP job the for loop has reached or by jobs whose process has exited,
\* those of one polling pass in input order.
C5_ResultInCompletionOrder ==
    /\ [](qpc = "done" =>
            /\ Len(completed_jobs) = Cardinality(Jobs)
            /\ Range(completed_jobs) = Jobs)
    /\ [][/\ Len(completed_jobs') >= Len(completed_jobs)
          /\ SubSeq(completed_jobs', 1, Len(completed_jobs)) = completed_jobs
          /\ \A n \in 1..Len(Appended) :
                \/ status[Appended[n]] = "SKIP" /\ Appended[n] = JobAt(i)
                \/ proc[Appended[n]] = "exited"
          /\ \A m, n \in 1..Len(Appended) :
                m < n => Appended[m] < Appended[n]]_vars

C5_Witness ==
    /\ Cardinality(Jobs) = 2
    /\ qpc = "done"
    /\ completed_jobs = <<2, 1>>
    /\ proc[1] = "exited" /\ proc[2] = "exited"

\* C6 (as claimed): a job whose transport is in flight has status RUNNING, and
\* a job becomes DONE, FAIL or PAUSED only from RUNNING.
C6_InFlightIsRunning ==
    /\ [](\A j \in Jobs : proc[j] = "running" => status[j] = "RUNNING")
    /\ [][\A j \in Jobs :
            (status'[j] # status[j] /\ status'[j] \in {"DONE", "FAIL", "PAUSED"})
                => status[j] = "RUNNING"]_vars

\* C7 (as claimed): a job that is DONE, FAIL or SKIP keeps its status and no
\* transport is started for it.
C7_TerminalStatusIsFinal ==
    [][\A j \in Jobs : status[j] \in {"DONE", "FAIL", "SKIP"} =>
            /\ status'[j] = status[j]
            /\ ~StartsTransport(j)
            /\ proc'[j] = "running" => proc[j] = "running"]_vars

\* a step in which download_job returns after its transport exited
ReturnsAfterExit(j) ==
    jpc[j] = "polling" /\ jpc'[j] = "returned"

\* C8: when the transport of a job run by download_job exits with a non-zero
\* code c, the job ends PAUSED with a message containing 'curl exit c' and
\* 'partial saved' if out_path holds more than 0 bytes, and FAIL with a
\* message containing 'curl exit c' if it holds none.
C8_NonZeroExitPausedOrFail ==
    [][\A j \in Jobs : (ReturnsAfterExit(j) /\ returncode[j] # 0) =>
            /\ Contains(message'[j], <<"curl exit", ToString(returncode[j])>>)
            /\ fsize[j] > 0 =>
                  /\ status'[j] = "PAUSED"
                  /\ Contains(message'[j], <<"(partial saved)">>)
            /\ fsize[j] = 0 => status'[j] = "FAIL"]_vars

C8_Witness ==
    /\ 1 \in Jobs
    /\ jpc[1] = "returned"
    /\ proc[1] = "exited" /\ returncode[1] = 2
    /\ fsize[1] = 2
    /\ status[1] = "PAUSED" /\ message[1] = MsgPartial(2)

\* C9: when the transport of a job run by download_job exits with code 0 the
\* job ends DONE with an empty message, whatever message it entered with.
C9_ZeroExitDoneAndCleared ==
    [][\A j \in Jobs : (ReturnsAfterExit(j) /\ returncode[j] = 0) =>
            /\ status'[j] = "DONE"
            /\ message'[j] = MsgEmpty]_vars

\* a job that entered download_job with a message left by an earlier outcome
\* and whose transport has exited with code 0, about to be classified
C9_Witness ==
    /\ 1 \in Jobs
    /\ jpc[1] = "polling"
    /\ message[1] # MsgEmpty
    /\ proc[1] = "exited" /\ returncode[1] = 0

\* C10 (as claimed): download_job called without an auth context on a QUEUED
\* job that has an out_path raises no exception.
C10_NoRaiseWithoutAuth ==
    [][\A j \in Jobs :
          (auth_cookies = "None" /\ status[j] = "QUEUED" /\ has_out[j]
             /\ jpc[j] = "idle" /\ jpc'[j] # "idle")
                => ~(jpc'[j] = "raised"
                       /\ exc' \in {"ValueError", "AssertionError"})]_vars

\* C11 (as claimed): once download_job has set the job RUNNING, an
\* interruption ends the call by a return, with the job PAUSED, a non-empty
\* message and the transport stopped; the job is not left RUNNING.
C11_InterruptAlwaysPauses ==
    \A j \in Jobs :
        (jpc[j] = "interrupted" \/ (jpc[j] = "raised" /\ exc = "KeyboardInterrupt"))
            => /\ jpc[j] = "interrupted"
               /\ status[j] = "PAUSED"
               /\ message[j] # MsgEmpty
               /\ proc[j] # "running"

\* C12 (as claimed): once download_queue has been left on an interruption,
\* no started transport is still running and every job that was in flight is
\* PAUSED, DONE or FAIL.
C12_QueueInterruptStopsInFlight ==
    (qpc = "raised" /\ exc = "KeyboardInterrupt") =>
        \A j \in Jobs : proc[j] # "none" =>
            /\ proc[j] # "running"
            /\ status[j] \in {"PAUSED", "DONE", "FAIL"}

\* C13 (as claimed): if every started transport exits, every non-SKIP job's
\* transport is eventually started and download_queue eventually returns.
C13_QueueEventuallyReturns ==
    /\ <>(qpc = "done")
    /\ \A j \in 1..MaxJobs :
          <>(j \in Jobs => (status[j] = "SKIP" \/ proc[j] # "none"))

\* the fields of job j, and its progress record
JobFields(j) ==
    <<status[j], message[j], has_out[j], fsize[j], expected_bytes[j],
      proc[j], returncode[j], cb_last[j]>>

\* C14: a SKIP job is never executed: no step of download_job or
\* download_queue changes any of its fields, starts a transport for it, calls
\* the progress callback for it or makes download_job raise or poll; it takes
\* no slot of download_queue, and it is in the result as soon as the for loop
\* has passed it.
C14_SkipNeverExecuted ==
    /\ [](\A j \in Jobs : status[j] = "SKIP" =>
            /\ proc[j] = "none"
            /\ j \notin Range(running_downloads)
            /\ jpc[j] \in {"idle", "returned"}
            /\ (qpc # "off" /\ j < i) => j \in Range(completed_jobs))
    /\ [][\A j \in Jobs : status[j] = "SKIP" =>
            /\ JobFields(j)' = JobFields(j)
            /\ jpc'[j] \in {jpc[j], "returned"}]_vars

\* a SKIP job collected while the only slot is taken by a running transport
C14_Witness ==
    /\ Cardinality(Jobs) = 2
    /\ max_concurrent = 1
    /\ proc[1] = "running" /\ running_downloads = <<1>>
    /\ status[2] = "SKIP" /\ completed_jobs = <<2>>

\* C15 (as claimed): a job executed with a progress callback supplied has had
\* the callback invoked for it by the time it is reported in a terminal status.
C15_ProgressReportedBeforeTerminal ==
    \A j \in Jobs :
        (/\ progress_cb
         /\ proc[j] = "exited"
         /\ status[j] \in {"DONE", "FAIL", "PAUSED"}
         /\ (j \in Range(completed_jobs) \/ jpc[j] = "returned"))
            => cb_last[j] # <<>>

\* the smaller of two numbers
Min(a, b) == IF a <= b THEN a ELSE b

\* C16: every fraction download_job passes to the progress callback lies in
\* [0,1]; it is min(1, bytes_so_far / expected_bytes) when expected_bytes is
\* known and not zero, and 0 when it is unknown or zero.
C16_FractionInUnitInterval ==
    \A j \in Jobs : cb_last[j] # <<>> =>
        LET n == cb_last[j][1]
            d == cb_last[j][2]
            b == cb_last[j][3]
            e == expected_bytes[j]
        IN  /\ d > 0
            /\ 0 <= n /\ n <= d
            /\ IF e = NoBytes \/ e = 0
               THEN n = 0
               ELSE n * e = d * Min(b, e)

\* the callback was called with more bytes on disk than expected
C16_Witness ==
    /\ 1 \in Jobs
    /\ expected_bytes[1] = 1
    /\ cb_last[1] = <<1, 1, 2>>


\* the job appended by this step, if any
Prepared == IF Len(jobs') = Len(jobs) + 1 THEN {jobs'[Len(jobs')]} ELSE {}

\* C17: a job is prepared SKIP exactly when a file of its name exists in
\* target_dir at that moment and QUEUED otherwise, and no later step, the
\* creation or deletion of that file included, changes a prepared job.
C17_SkipIffOutputExistsWhenPrepared ==
    [][/\ \A j \in Prepared :
            /\ j.status \in {"SKIP", "QUEUED"}
            /\ j.status = "SKIP" <=> j.name \in target_dir
        /\ Len(jobs') >= Len(jobs)
        /\ \A k \in 1..Len(jobs) : jobs'[k] = jobs[k]]_vars

\* a job prepared SKIP whose file was deleted afterwards, and a job prepared
\* QUEUED whose file was created afterwards
C17_Witness ==
    /\ Len(jobs) = 2
    /\ jobs[1].status = "SKIP" /\ jobs[1].name \notin target_dir
    /\ jobs[2].status = "QUEUED" /\ jobs[2].name \in target_dir

\* C18: the jobs prepare_jobs returns are, in order, the jobs of a
\* sub-list of the input URLs that holds every URL url_matches_extension
\* accepts.
C18_JobsAreOrderedSublistWithMatches ==
    ppc = "returned" =>
        \E kept \in SUBSET (1..Len(urls)) :
            /\ \A k \in 1..Len(urls) :
                    UrlMatchesExtension(urls[k], desired_ext) => k \in kept
            /\ Len(jobs) = Cardinality(kept)
            /\ \A k \in kept :
                    jobs[Cardinality({m \in kept : m <= k})].url = urls[k]

\* two different URLs, the first accepted by url_matches_extension
C18_Witness ==
    /\ ppc = "returned"
    /\ urls = <<<<"a", ".", "mkv">>, <<"a">>>>
    /\ desired_ext = <<"mkv">>
    /\ Len(jobs) = 2
    /\ jobs[1].url = urls[1] /\ jobs[2].url = urls[2]

\* C19: whatever the URL, the probe's header text and the desired extension,
\* infer_filename returns a non-empty name without directory separator that
\* ends, case-insensitively, in "." + desired_ext; so does the name of every
\* job prepare_jobs builds, for the job's ext.
C19_NameEndsInDesiredExt ==
    /\ ipc = "returned" =>
            /\ name # <<>>
            /\ \A k \in 1..Len(name) : name[k] # "/"
            /\ EndsWith(Lower(name), <<".">> \o Lower(desired_ext))
    /\ \A k \in 1..Len(jobs) :
            /\ jobs[k].ext = desired_ext
            /\ EndsWith(Lower(jobs[k].name), <<".">> \o Lower(jobs[k].ext))

\* a.MP4 asked as mkv comes back as a.mkv
C19_Witness ==
    /\ ipc = "returned"
    /\ url = <<"a", ".", "MP4">>
    /\ headers = <<>>
    /\ desired_ext = <<"mkv">>
    /\ name = <<"a", ".", "mkv">>

\* the filename parameter of the first Content-Disposition header that has
\* one, whatever the case of the header's and the parameter's name: its
\* value without surrounding quotes and blanks
DispositionHint(hdrs) ==
    LET hits == {k \in 1..Len(hdrs) : IsDispositionLine(hdrs[k])}
    IN  IF hits = {} THEN <<>>
        ELSE LET line == hdrs[CHOOSE k \in hits : \A m \in hits : k <= m]
                 at == Find(Lower(line), <<"filename", "=">>)
             IN  Strip(SubSeq(line, at + 3, Len(line)), DispositionStrip)

\* the target of the last Location header, without blanks
LocationHint(hdrs) ==
    LET hits == {k \in 1..Len(hdrs) : IsLocationLine(hdrs[k])}
    IN  IF hits = {} THEN <<>>
        ELSE Strip(After(hdrs[CHOOSE k \in hits : \A m \in hits : k >= m], <<":">>),
                   Whitespace)

\* the candidate name by strict priority of the three sources
CandidateByPriority(u, hdrs) ==
    IF Basename(DispositionHint(hdrs)) # <<>> THEN Basename(DispositionHint(hdrs))
    ELSE IF UrlBasename(LocationHint(hdrs)) # <<>> THEN UrlBasename(LocationHint(hdrs))
    ELSE UrlBasename(u)

\* C20: the name infer_filename returns is built from the candidate picked
\* by strict priority: the basename of the Content-Disposition filename when
\* there is one and it is not empty, otherwise the basename of the redirect
\* Location without query string and fragment, otherwise the basename of
\* the URL without query string and fragment.
C20_CandidateByStrictPriority ==
    ipc = "returned" =>
        name = Basename(Normalize(Fallback(CandidateByPriority(url, headers),
                                           url, desired_ext), desired_ext))

\* the URL's path basename ends in "." + desired_ext
NamedAsDesired(u, ext) == EndsWith(Lower(UrlBasename(u)), <<".">> \o ext)

\* ... and something other than dots stands before that extension
NamedWithStem(u, ext) ==
    /\ NamedAsDesired(u, ext)
    /\ \E k \in 1..(Len(UrlBasename(u)) - 2) : UrlBasename(u)[k] # "."

\* C21: with an empty probe, infer_filename gives a URL whose path basename
\* ends in "." + desired_ext that basename, unchanged, and gives a URL that
\* ends in the returned name the same name again.
C21_InferIsIdempotent ==
    /\ [](ipc = "returned" /\ headers = <<>> /\ NamedAsDesired(url, desired_ext)
            => name = UrlBasename(url))
    /\ [][ipc' = "again" /\ headers = <<>> /\ NamedAsDesired(url, desired_ext)
            => name' = name]_vars

\* C21, amended: the same for a basename that has something other than dots
\* before its extension; a basename of dots and the extension only (".mkv")
\* has no extension for os.path.splitext and gets one appended (".mkv.mkv").
C21_InferIsIdempotentOnStems ==
    /\ [](ipc = "returned" /\ headers = <<>> /\ NamedWithStem(url, desired_ext)
            => name = UrlBasename(url))
    /\ [][ipc' = "again" /\ headers = <<>> /\ NamedWithStem(url, desired_ext)
            => name' = name]_vars

\* a.mkv was returned for /a.mkv, and again for a/a.mkv
C21_Witness ==
    /\ ipc = "again"
    /\ desired_ext = <<"mkv">>
    /\ url = <<"a", "/", "a", ".", "mkv">>
    /\ name = <<"a", ".", "mkv">>

\* C22: a job's message is empty unless its status is FAIL or PAUSED, also
\* while a job that was PAUSED or FAIL before is executed again (calls left
\* by an exception set aside).
C22_MessageOnlyWhenFailOrPaused ==
    \A j \in Jobs :
        jpc[j] # "raised" /\ message[j] # MsgEmpty => status[j] \in {"FAIL", "PAUSED"}

\* C23: no step of prepare_jobs, download_job or download_queue sets a
\* status to QUEUED that was not QUEUED before, and download_queue starts no
\* process for a job it has already collected.
C23_NeverBackToQueued ==
    [][/\ \A j \in Jobs :
            /\ status'[j] = "QUEUED" => status[j] = "QUEUED"
            /\ qpc # "off" /\ j \in Range(completed_jobs) => proc'[j] = proc[j]
        /\ \A k \in 1..Len(jobs) :
            jobs'[k].status = "QUEUED" => jobs[k].status = "QUEUED"]_vars

\* the first job ended PAUSED and the queue went on to run the second
C23_Witness ==
    /\ Cardinality(Jobs) = 2
    /\ qpc = "loop"
    /\ 1 \in Range(completed_jobs)
    /\ status[1] = "PAUSED"
    /\ proc[2] = "running"

\* C24: under krdl_dl main, with a list of distinct URLs, no two jobs whose
\* curl processes run at the same time have the same out_path.
C24_InFlightPathsDisjoint ==
    \A j, k \in Jobs :
        proc[j] = "running" /\ proc[k] = "running" /\ j # k
            => QueuedJobs[j].name # QueuedJobs[k].name

\* C25: whatever auth_cookies prepare_jobs was called with, it probes each
\* URL once, in order, without auth; it makes no other call and no step of
\* it changes the files of target_dir.
C25_ProbeWithoutCallerAuth ==
    /\ [](/\ Len(probes) <= Len(urls)
          /\ ppc = "returned" => Len(probes) = Len(urls)
          /\ \A k \in 1..Len(probes) :
                probes[k][1] = urls[k] /\ probes[k][2] = "None")
    /\ [][probes' # probes \/ ppc' # ppc => target_dir' = target_dir]_vars

\* prepare_jobs was called with cookies and has probed two URLs
C25_Witness ==
    /\ ppc = "returned"
    /\ auth_cookies = "sid=1"
    /\ Len(probes) = 2

\* C26: a probe that fails raises nothing: prepare_jobs goes on and emits
\* the job of that URL with no expected_bytes, its name taken from the URL
\* alone and its status from the existence of the file alone.
C26_ProbeFailureTolerated ==
    [][\A k \in 1..Len(probes') :
            k > Len(probes) /\ probes'[k][3] # "ok" =>
                /\ ppc' # "raised"
                /\ Len(jobs') = Len(jobs) + 1
                /\ jobs'[Len(jobs')].url = urls[k]
                /\ jobs'[Len(jobs')].expected_bytes = NoBytes
                /\ jobs'[Len(jobs')].status = "SKIP" <=>
                        InferFilename(urls[k], <<>>, desired_ext) \in target_dir]_vars

\* C27: a download_job call on a job that is not SKIP and has no out_path
\* starts no process and ends by an AssertionError (unless the user
\* interrupts it before).
C27_MissingOutPathAsserts ==
    [][\A j \in Jobs :
          (status[j] # "SKIP" /\ ~has_out[j] /\ jpc'[j] # jpc[j])
             => /\ proc'[j] = proc[j]
                /\ jpc'[j] = "raised"
                /\ exc' \in {"AssertionError", "KeyboardInterrupt"}]_vars

\* the call on a job without out_path, made with cookies, has raised
C27_Witness ==
    /\ 1 \in Jobs
    /\ ~has_out[1]
    /\ auth_cookies = "sid=1"
    /\ jpc[1] = "raised"
    /\ exc = "AssertionError"
    /\ proc[1] = "none"

C29_AtMostJobsArgRunning ==
    Cardinality({j \in Jobs : proc[j] = "running"}) <= args_jobs

\* C30: the counts of the summary krdl_dl main prints add up to the number of
\* jobs prepare_jobs returned (the summary has a count for every final
\* status), and the jobs that were SKIP at preparation are counted as
\* skipped.
C30_SummaryCountsEveryJob ==
    summary # <<>> =>
        /\ summary[1] + summary[2] + summary[3] = Len(jobs)
        /\ summary[3] = Cardinality({k \in 1..Len(jobs) : jobs[k].status = "SKIP"})

\* the path of a URL: the URL without query string and fragment
PathOf(u) == Before(Before(u, <<"?">>), <<"#">>)

\* the synthetic name: the second-to-last segment of the URL's path, or
\* "download" when the path has no "/", plus "." + ext
SyntheticName(u, ext) ==
    (IF RFind(PathOf(u), "/") = 0 THEN <<"download">> ELSE SecondToLast(PathOf(u)))
        \o <<".">> \o ext

\* C34: when the candidate name is empty or just "mkv" or "mp4", the name
\* infer_filename returns is the second-to-last segment of the URL's path
\* plus "." + desired_ext, or "download." + desired_ext when there is no such
\* segment; query string and fragment are no part of it.
C34_FallbackFromPathOnly ==
    ipc = "returned" /\ Lower(Candidate(url, headers)) \in {<<"mkv">>, <<"mp4">>, <<>>}
        => name = SyntheticName(url, desired_ext)

\* C35: prepare_jobs discards no URL: whatever the probes answer, when it
\* is over it has emitted exactly one job per input URL, in order.
C35_OneJobPerUrl ==
    ppc \in {"returned", "raised"}
        => /\ Len(jobs) = Len(urls)
           /\ \A k \in 1..Len(jobs) : jobs[k].url = urls[k]

\* C36: a download_job call that raises (no out_path, or no auth context)
\* leaves status and message of the job as they were before the call.
C36_RaiseLeavesJobAsItWas ==
    [][\A j \in Jobs :
          jpc'[j] = "raised" /\ exc' \in {"AssertionError", "ValueError"}
             => status'[j] = status[j] /\ message'[j] = message[j]]_vars

\* job j is reaped in this step: download_job leaves its polling loop and
\* returns, or download_queue takes the job off running_downloads
Reaped(j) ==
    \/ jpc[j] = "polling" /\ jpc'[j] = "returned"
    \/ j \in Range(running_downloads) /\ j \notin Range(running_downloads')

\* C37: whichever of download_job and download_queue reaps a job, the status
\* and message it assigns are those both procedures assign to the exit code
\* and the size on disk at that moment.
C37_SameClassification ==
    [][\A j \in Jobs :
          Reaped(j) =>
             /\ status'[j] = ClassifyStatus(returncode[j], CurrentSize(j))
             /\ status'[j] = QueueClassifyStatus(returncode[j], CurrentSize(j))
             /\ message'[j] = ClassifyMessage(returncode[j], CurrentSize(j))
             /\ message'[j] = QueueClassifyMessage(returncode[j], CurrentSize(j))]_vars

\* download_queue has reaped a failed download that left nothing on disk
C37_Witness ==
    /\ Cardinality(Jobs) = 2
    /\ qpc = "done"
    /\ status[1] = "FAIL"
    /\ message[1] = MsgExit(1)
    /\ fsize[1] = 0
    /\ status[2] = "PAUSED"
    /\ message[2] = MsgPartial(2)

\* the position of the first occurrence of u in us
FirstAt(us, u) == FirstIn(us, {u})

\* C33: extract_urls_from_text returns every URL found in the file exactly
\* once, in the order of the first occurrences; URLs that differ in any
\* character are different URLs and both returned.
C33_DistinctInFirstOccurrenceOrder ==
    xpc = "returned" =>
        LET found == FoundIn(SplitLines(text))
        IN  /\ Range(out_urls) = Range(found)
            /\ \A k, l \in 1..Len(out_urls) :
                  k < l => /\ out_urls[k] # out_urls[l]
                           /\ FirstAt(found, out_urls[k]) < FirstAt(found, out_urls[l])

\* a URL, another one, the first one again
C33_Witness ==
    /\ xpc = "returned"
    /\ text = <<"http://a", " ", "http://b", "\n", "http://a">>
    /\ out_urls = <<<<"http://a">>, <<"http://b">>>>

\* the executions of download_job in flight in the TUI
Executing == {t \in tasks : t.phase = "executing"}

\* the (runner, job) pairs whose job has been started
Admitted == {<<t.runner, t.job>> : t \in tasks}

\* C31: while Pause is in effect (from Pause on, until Start is pressed) the
\* TUI starts no job that was not in flight already, whatever its runner was
\* doing when Pause arrived.
C31_NothingStartedWhilePaused ==
    [][~app_running /\ ~app_running' => Admitted' \subseteq Admitted]_vars

C39_OneRunnerOneExecutionPerJob ==
    /\ Cardinality({r \in 1..Len(runners) : runners[r].rpc # "done"}) <= 1
    /\ \A t, u \in Executing : t.job = u.job => t = u

\* C40: KrdlSeleniumDownloader.download_queue returns every job it was
\* given, and every job whose browser download finished is in the returned
\* list with status DONE.
C40_SeleniumReturnsEveryJobDone ==
    qpc = "done" =>
        /\ Range(completed_jobs) = Jobs
        /\ \A j \in Jobs :
              proc[j] = "exited" => j \in Range(completed_jobs) /\ status[j] = "DONE"

\* C38: a URL whose download the run before left PAUSED with a partial file
\* is given a QUEUED job, not a SKIP job, when prepare_jobs prepares it
\* again.
C38_PartialFileIsQueuedAgain ==
    \A k \in 1..Len(jobs) :
        jobs[k].url \in partial_urls => jobs[k].status = "QUEUED"

====
